---------------------------- MODULE Spec2Model ----------------------------
(***************************************************************************)
(* A model of the merkletree package (RFC 6962 Merkle hash trees):         *)
(*   - the static functions MTH, Path, subProof and Proof, which recompute *)
(*     every digest from the entry list;                                   *)
(*   - MerkleHashTree, which stores the digests in one array per level and *)
(*     answers MerkleRoot, InclusionProof and ConsitencyProof from them.   *)
(*                                                                         *)
(* sha256.Sum256 is modelled as a collision-free hash: the digest of an    *)
(* input is the term <<"sha256", input>>, so two digests are equal exactly *)
(* when their inputs are.  An entry (a byte string) is an integer; the     *)
(* concatenation of two fixed-size digests is the pair of the two.         *)
(***************************************************************************)
EXTENDS Integers, Sequences, FiniteSets, TLC

(***************************************************************************)
(* Bounds of the model.                                                    *)
(***************************************************************************)
\* The largest number of leaves a tree grows to.
MaxLeaves == 17
\* The largest number of entries handed to one Append call.
MaxBatch == 3
\* Entries at positions 1..MaxDup may repeat entry 0 instead of being fresh.
MaxDup == 2
\* The inputs of largestPowerOf2SmallerThan lie within MaxOffset of a power of two.
MaxOffset == 2

(***************************************************************************)
(* Results of calls.  A call returns a value, panics (an index out of      *)
(* range, a negative length given to make), or never returns (unbounded    *)
(* recursion, which ends the Go process with a stack overflow).            *)
(***************************************************************************)
Ok(v) == [status |-> "ok", val |-> v]
Panic == [status |-> "panic", val |-> <<>>]
StackOverflow == [status |-> "stack overflow", val |-> <<>>]

(***************************************************************************)
(* Hash primitives.                                                        *)
(***************************************************************************)
LeafPrefix == 0
NodePrefix == 1

Sum256(input) == <<"sha256", input>>

leafHash(input) == Sum256(<<LeafPrefix, input>>)

\* final is left || right, two digests of sha256.Size bytes each.
nodeHash(final) == Sum256(<<NodePrefix>> \o final)

\* D[a:b] of Go: the elements at (0-based) positions a .. b-1.
Slice(D, a, b) == SubSeq(D, a + 1, b)

(***************************************************************************)
(* uint64.  A value is a sequence of NumLimbs limbs of 16 bits, the least  *)
(* significant first; multiplication by 2 and subtraction of 1 wrap around *)
(* at 2^64 as Go's do.                                                     *)
(***************************************************************************)
WordBits == 64
LimbBase == 2^16
NumLimbs == WordBits \div 16

\* The limbs of a value as a sequence.
Limbs(f) == SubSeq(f, 1, NumLimbs)

\* uint64(n) for an int n >= 0.
RECURSIVE LimbOf(_, _)
LimbOf(n, i) == IF i = 1 THEN n % LimbBase ELSE LimbOf(n \div LimbBase, i - 1)

ToUint64(n) == Limbs([i \in 1..NumLimbs |-> LimbOf(n, i)])

\* int(w) for a w below 2^31, which every length of the model is.
ToInt(w) == w[1] + LimbBase * w[2]

\* w * 2: each limb doubled, with the carry of the limb below; the carry out
\* of the top limb is lost.
Uint64Double(w) ==
    Limbs([i \in 1..NumLimbs |->
        ((2 * w[i]) % LimbBase)
            + (IF i > 1 /\ 2 * w[i - 1] >= LimbBase THEN 1 ELSE 0)])

\* w - 1: the borrow reaches limb i when every limb below it is 0.
Uint64Dec(w) ==
    Limbs([i \in 1..NumLimbs |->
        IF \A j \in 1..(i - 1) : w[j] = 0
        THEN (IF w[i] = 0 THEN LimbBase - 1 ELSE w[i] - 1)
        ELSE w[i]])

\* a > b
Uint64Greater(a, b) ==
    \E i \in 1..NumLimbs :
        a[i] > b[i] /\ \A j \in (i + 1)..NumLimbs : a[j] = b[j]

(***************************************************************************)
(* largestPowerOf2SmallerThan: the loop doubles cur at most 64 times and   *)
(* returns the last value that did not exceed n-1; when the loop runs out  *)
(* (cur has wrapped to 0) the function returns 0.                          *)
(***************************************************************************)
RECURSIVE lp2Loop(_, _, _, _)
lp2Loop(n, cur, prev, i) ==
    IF i >= 64 THEN ToUint64(0)
    ELSE LET cur2 == Uint64Double(cur)
         IN  IF Uint64Greater(cur2, Uint64Dec(n)) THEN prev
             ELSE lp2Loop(n, cur2, cur2, i + 1)

\* The function on uint64 values.
largestPowerOf2SmallerThanUint64(n) ==
    IF Uint64Greater(ToUint64(2), n) THEN ToUint64(0)
    ELSE lp2Loop(n, ToUint64(1), ToUint64(1), 0)

\* The function as the package calls it, on a length: the argument is
\* uint64(len(...)) and the result is used as an index.
largestPowerOf2SmallerThan(n) ==
    ToInt(largestPowerOf2SmallerThanUint64(ToUint64(n)))

(***************************************************************************)
(* The static functions.                                                   *)
(***************************************************************************)
RECURSIVE MTH(_)
MTH(D) ==
    LET n == Len(D)
    IN  IF n = 0 THEN Sum256(<<>>)
        ELSE IF n = 1 THEN Sum256(<<LeafPrefix, D[1]>>)
        ELSE LET k == largestPowerOf2SmallerThan(n)
             IN  Sum256(<<NodePrefix, MTH(Slice(D, 0, k)), MTH(Slice(D, k, n))>>)

\* A Path that puts the sibling in front of the sub-path instead of after it.
RECURSIVE PathPrepends(_, _)
PathPrepends(m, D) ==
    LET n == Len(D)
    IN  IF m < 0 \/ m > n THEN Ok(<<>>)
        ELSE IF m = 0 /\ n = 1 THEN Ok(<<>>)
        ELSE LET k == largestPowerOf2SmallerThan(n)
             IN  IF k = 0 THEN StackOverflow
                 ELSE IF m < k
                 THEN LET sub == PathPrepends(m, Slice(D, 0, k))
                      IN  IF sub.status # "ok" THEN sub
                          ELSE Ok(<<MTH(Slice(D, k, n))>> \o sub.val)
                 ELSE LET sub == PathPrepends(m - k, Slice(D, k, n))
                      IN  IF sub.status # "ok" THEN sub
                          ELSE Ok(<<MTH(Slice(D, 0, k))>> \o sub.val)

(***************************************************************************)
(* Path(m, D).  The guard lets m = n through (it tests m > n), and for     *)
(* n < 2 the split point k is 0: then m < k is false and the call made is  *)
(* Path(m-0, D[0:n]), the very call being evaluated, so the recursion      *)
(* never ends.  For k >= 1 both halves are shorter than D.                 *)
(***************************************************************************)
RECURSIVE Path(_, _)
Path(m, D) ==
    LET n == Len(D)
    IN  IF m < 0 \/ m > n THEN Ok(<<>>)
        ELSE IF m = 0 /\ n = 1 THEN Ok(<<>>)
        ELSE LET k == largestPowerOf2SmallerThan(n)
             IN  IF m < k
                 THEN LET sub == Path(m, Slice(D, 0, k))
                      IN  IF sub.status # "ok" THEN sub
                          ELSE Ok(Append(sub.val, MTH(Slice(D, k, n))))
                 ELSE IF k = 0 THEN StackOverflow
                 ELSE LET sub == Path(m - k, Slice(D, k, n))
                      IN  IF sub.status # "ok" THEN sub
                          ELSE Ok(Append(sub.val, MTH(Slice(D, 0, k))))

\* A subProof that treats the requested size as unknown at the top as well.
RECURSIVE subProofNeverKnown(_, _, _)
subProofNeverKnown(m, D, isKnown) ==
    LET n == Len(D)
    IN  IF m = n THEN <<MTH(D)>>
        ELSE IF m < n
        THEN LET k == largestPowerOf2SmallerThan(n)
             IN  IF m <= k
                 THEN Append(subProofNeverKnown(m, Slice(D, 0, k), isKnown),
                             MTH(Slice(D, k, n)))
                 ELSE Append(subProofNeverKnown(m - k, Slice(D, k, n), FALSE),
                             MTH(Slice(D, 0, k)))
        ELSE <<>>

RECURSIVE subProof(_, _, _)
subProof(m, D, isKnown) ==
    LET n == Len(D)
    IN  IF m = n /\ isKnown THEN <<>>
        ELSE IF m = n /\ ~isKnown THEN <<MTH(D)>>
        ELSE IF m < n
        THEN LET k == largestPowerOf2SmallerThan(n)
             IN  IF m <= k
                 THEN Append(subProof(m, Slice(D, 0, k), isKnown), MTH(Slice(D, k, n)))
                 ELSE Append(subProof(m - k, Slice(D, k, n), FALSE), MTH(Slice(D, 0, k)))
        ELSE <<>>

\* nil (returned for m > n) and the empty slice are both the empty sequence.
Proof(m, D) ==
    IF m < 0 \/ m > Len(D) THEN <<>> ELSE subProof(m, D, TRUE)


(***************************************************************************)
(* MerkleHashTree.  tree is m.tree: tree[i+1] is the array of level i, and *)
(* tree[i+1][j+1] its element j.                                           *)
(***************************************************************************)

\* math.Pow(2, l) converted to int: a negative l gives a fraction, cut to 0.
Pow2Int(l) == IF l < 0 THEN 0 ELSE 2^l

\* Stands for math.MinInt64, which does not fit TLC's integers: what int()
\* yields for math.Log2(0) = -Inf.
MinInt == -(2^30)

\* int(math.Log2(float64(nodes))): the floor of the logarithm for nodes >= 1.
IntLog2(nodes) ==
    IF nodes < 1 THEN MinInt
    ELSE CHOOSE l \in 0..nodes : 2^l <= nodes /\ nodes < 2^(l + 1)

\* levels that puts every leaf count on the power-of-two branch.
levelsAlwaysPlusOne(nodes) == IntLog2(nodes) + 1

levels(nodes) ==
    LET l == IntLog2(nodes)
    IN  IF Pow2Int(l) # nodes THEN l + 2 ELSE l + 1

(***************************************************************************)
(* buildTree returns the hash of entries and appends it to the array of    *)
(* level; the arrays are threaded through the two recursive calls, left    *)
(* first.  Under New a call with two or more entries has level >= 1 and    *)
(* level < len(m.tree).                                                    *)
(***************************************************************************)
RECURSIVE buildTree(_, _, _)
buildTree(t, entries, level) ==
    LET n == Len(entries)
    IN  IF n = 0 THEN [tree |-> t, hash |-> Sum256(<<>>)]
        ELSE IF n = 1 THEN [tree |-> t, hash |-> entries[1]]
        ELSE LET k     == largestPowerOf2SmallerThan(n)
                 left  == buildTree(t, Slice(entries, 0, k), level - 1)
                 right == buildTree(left.tree, Slice(entries, k, n), level - 1)
                 hash  == nodeHash(<<left.hash, right.hash>>)
             IN  [tree |-> [right.tree EXCEPT ![level + 1] = Append(@, hash)],
                  hash |-> hash]

\* make with a negative length panics; with length 0, t[0] is out of range.
New(d) ==
    LET leaves == [i \in 1..Len(d) |-> leafHash(d[i])]
        l      == levels(Len(d))
    IN  IF l < 1 THEN Panic
        ELSE LET t == [i \in 1..l |-> IF i = 1 THEN leaves ELSE <<>>]
             IN  Ok(buildTree(t, leaves, l - 1).tree)

\* A rebuildTree that appends every hash, as buildTree does, and overwrites
\* nothing.
RECURSIVE rebuildTreeAlwaysAppends(_, _, _, _)
rebuildTreeAlwaysAppends(t, entries, level, levelIndexMap) ==
    LET n == Len(entries)
    IN  IF n = 0 THEN [tree |-> t, hash |-> Sum256(<<>>), map |-> levelIndexMap]
        ELSE IF n = 1 THEN [tree |-> t, hash |-> entries[1], map |-> levelIndexMap]
        ELSE LET k     == largestPowerOf2SmallerThan(n)
                 left  == rebuildTreeAlwaysAppends(t, Slice(entries, 0, k),
                                                   level - 1, levelIndexMap)
                 right == rebuildTreeAlwaysAppends(left.tree, Slice(entries, k, n),
                                                   level - 1, left.map)
                 hash  == nodeHash(<<left.hash, right.hash>>)
             IN  [tree |-> [right.tree EXCEPT ![level + 1] = Append(@, hash)],
                  hash |-> hash,
                  map  |-> right.map]

(***************************************************************************)
(* rebuildTree: as buildTree, but the hash goes to position                *)
(* levelIndexMap[level] of the level's array (appended when that is the    *)
(* array's length, overwriting otherwise), and the position advances.      *)
(* levelIndexMap is a sequence with one counter per level, 0 for a level   *)
(* the Go map has no key for.                                              *)
(***************************************************************************)
RECURSIVE rebuildTree(_, _, _, _)
rebuildTree(t, entries, level, levelIndexMap) ==
    LET n == Len(entries)
    IN  IF n = 0 THEN [tree |-> t, hash |-> Sum256(<<>>), map |-> levelIndexMap]
        ELSE IF n = 1 THEN [tree |-> t, hash |-> entries[1], map |-> levelIndexMap]
        ELSE LET k     == largestPowerOf2SmallerThan(n)
                 left  == rebuildTree(t, Slice(entries, 0, k), level - 1, levelIndexMap)
                 right == rebuildTree(left.tree, Slice(entries, k, n), level - 1, left.map)
                 hash  == nodeHash(<<left.hash, right.hash>>)
                 index == right.map[level + 1]
                 row   == right.tree[level + 1]
             IN  [tree |-> [right.tree EXCEPT ![level + 1] =
                                IF index = Len(row) THEN Append(row, hash)
                                ELSE [row EXCEPT ![index + 1] = hash]],
                  hash |-> hash,
                  map  |-> [right.map EXCEPT ![level + 1] = index + 1]]

\* An Append that adds the leaves and the levels but does not rebuild: the
\* root it returns is the one stored before.
AppendNoRebuild(t, d) ==
    LET leaves == t[1] \o [i \in 1..Len(d) |-> leafHash(d[i])]
        l      == levels(Len(leaves))
        grown  == [i \in 1..(IF l > Len(t) THEN l ELSE Len(t)) |->
                       IF i = 1 THEN leaves ELSE IF i <= Len(t) THEN t[i] ELSE <<>>]
    IN  [tree |-> grown, hash |-> t[Len(t)][1]]

\* Append(d...): the new tree and the root returned.
AppendEntries(t, d) ==
    LET leaves == t[1] \o [i \in 1..Len(d) |-> leafHash(d[i])]
        l      == levels(Len(leaves))
        grown  == [i \in 1..(IF l > Len(t) THEN l ELSE Len(t)) |->
                       IF i = 1 THEN leaves ELSE IF i <= Len(t) THEN t[i] ELSE <<>>]
        r      == rebuildTree(grown, leaves, l - 1, [i \in 1..Len(grown) |-> 0])
    IN  [tree |-> r.tree, hash |-> r.hash]

\* m.tree[len(m.tree)-1][0]
MerkleRoot(t) ==
    IF Len(t) = 0 \/ Len(t[Len(t)]) = 0 THEN Panic ELSE Ok(t[Len(t)][1])

\* The position of the first element equal to e, or -1.
IndexOf(entries, e) ==
    IF \E i \in 1..Len(entries) : entries[i] = e
    THEN (CHOOSE i \in 1..Len(entries) :
              entries[i] = e /\ \A j \in 1..(i - 1) : entries[j] # e) - 1
    ELSE -1

\* mthOfRange reads one stored slot; a slot that is not there is a panic.
mthOfRange(t, start, end) ==
    IF start = end
    THEN IF start < 0 \/ start >= Len(t[1]) THEN Panic ELSE Ok(t[1][start + 1])
    ELSE LET lv      == levels(end - start + 1)
             maxSize == Pow2Int(lv - 1)
             idx     == start \div maxSize
         IN  IF lv - 1 < 0 \/ lv - 1 >= Len(t) THEN Panic
             ELSE IF idx < 0 \/ idx >= Len(t[lv]) THEN Panic
             ELSE Ok(t[lv][idx + 1])

RECURSIVE AduitPath(_, _, _, _)
AduitPath(t, m, start, end) ==
    LET n == end - start + 1
    IN  IF n = 0 \/ start > end THEN Ok(<<>>)
        ELSE IF m < start \/ m > end THEN Ok(<<>>)
        ELSE IF m = start /\ n = 1 THEN Ok(<<>>)
        ELSE LET k == start + largestPowerOf2SmallerThan(n)
             IN  IF m < k
                 THEN LET sub == AduitPath(t, m, start, k - 1)
                          sib == mthOfRange(t, k, end)
                      IN  IF sub.status # "ok" THEN sub
                          ELSE IF sib.status # "ok" THEN sib
                          ELSE Ok(Append(sub.val, sib.val))
                 ELSE LET sub == AduitPath(t, m, k, end)
                          sib == mthOfRange(t, start, k - 1)
                      IN  IF sub.status # "ok" THEN sub
                          ELSE IF sib.status # "ok" THEN sib
                          ELSE Ok(Append(sub.val, sib.val))

InclusionProof(t, e) ==
    LET m == IndexOf(t[1], leafHash(e))
    IN  IF m < 0 THEN Ok(<<>>) ELSE AduitPath(t, m, 0, Len(t[1]) - 1)

(***************************************************************************)
(* subProof on the stored levels.  n = uint64(end-start+1); for k = 0 the  *)
(* uint64 k-1 wraps to 2^64-1 and int() of it is -1, so start+int(k-1) is  *)
(* start-1.                                                                *)
(***************************************************************************)
RECURSIVE treeSubProof(_, _, _, _, _)
treeSubProof(t, m, start, end, isKnown) ==
    LET n == end - start + 1
    IN  IF m = n /\ isKnown THEN Ok(<<>>)
        ELSE IF m = n /\ ~isKnown
        THEN LET h == mthOfRange(t, start, end)
             IN  IF h.status # "ok" THEN h ELSE Ok(<<h.val>>)
        ELSE IF m < n
        THEN LET k == largestPowerOf2SmallerThan(n)
             IN  IF m <= k
                 THEN LET sub == treeSubProof(t, m, start, start + (k - 1), isKnown)
                          sib == mthOfRange(t, start + k, end)
                      IN  IF sub.status # "ok" THEN sub
                          ELSE IF sib.status # "ok" THEN sib
                          ELSE Ok(Append(sub.val, sib.val))
                 ELSE LET sub == treeSubProof(t, m - k, start + k, end, FALSE)
                          sib == mthOfRange(t, start, start + (k - 1))
                      IN  IF sub.status # "ok" THEN sub
                          ELSE IF sib.status # "ok" THEN sib
                          ELSE Ok(Append(sub.val, sib.val))
        ELSE Ok(<<>>)

\* nil (an invalid range) and the empty slice are both the empty sequence.
ConsitencyProof(t, m, n) ==
    LET l == Len(t[1])
    IN  IF m < 0 \/ m > n \/ m > l \/ n > l THEN Ok(<<>>)
        ELSE treeSubProof(t, m, 0, n - 1, TRUE)

(***************************************************************************)
(* The state: one tree and its caller.                                     *)
(*   tree  m.tree, or <<>> when New panicked and returned no tree          *)
(*   D     the entries the caller has handed to New and Append so far, the *)
(*         list it gives to the static functions                           *)
(*   op    the call whose result the caller holds, "idle" when none        *)
(*   args  that call's arguments                                           *)
(*   ret   that call's result                                              *)
(***************************************************************************)
VARIABLES tree, D, op, args, ret

vars == <<tree, D, op, args, ret>>

\* The positions (0-based) whose entry may repeat entry 0.
DupPositions == 1..MaxDup

\* cnt entries for positions from .. from+cnt-1: the entry at position p is
\* p itself (as makeEntries names them), or 0 where p is in dup.
Entries(dup, from, cnt) ==
    [j \in 1..cnt |-> IF (from + j - 1) \in dup THEN 0 ELSE from + j - 1]

Distinct(s) == \A i, j \in 1..Len(s) : i # j => s[i] # s[j]

\* The state after New(A), for every list A of up to MaxLeaves entries.
Init ==
    \E cnt \in 0..MaxLeaves, dup \in SUBSET DupPositions :
        LET A == Entries(dup, 0, cnt)
            r == New(A)
        IN  /\ dup \subseteq 0..(cnt - 1)
            /\ D = A
            /\ tree = r.val
            /\ op = "New"
            /\ args = <<>>
            /\ ret = [status |-> r.status, val |-> <<>>]

\* The caller may call when it holds no result and New gave it a tree.
CanCall == op = "idle" /\ Len(tree) > 0

(***************************************************************************)
(* The caller takes the result and goes on.  A panic of a method of the    *)
(* tree can be recovered from; a panic of New leaves no tree, and a stack  *)
(* overflow ends the process.                                              *)
(***************************************************************************)
Return ==
    /\ op # "idle"
    /\ ret.status = "ok" \/ (ret.status = "panic" /\ op # "New")
    /\ op' = "idle"
    /\ args' = <<>>
    /\ ret' = Ok(<<>>)
    /\ UNCHANGED <<tree, D>>

DoAppend ==
    \E cnt \in 0..MaxBatch, dup \in SUBSET DupPositions :
        LET d == Entries(dup, Len(D), cnt)
            r == AppendEntries(tree, d)
        IN  /\ CanCall
            /\ Len(D) + cnt <= MaxLeaves
            /\ dup \subseteq Len(D)..(Len(D) + cnt - 1)
            /\ tree' = r.tree
            /\ D' = D \o d
            /\ op' = "Append"
            /\ args' = d
            /\ ret' = Ok(r.hash)

DoMerkleRoot ==
    /\ CanCall
    /\ op' = "MerkleRoot"
    /\ args' = <<>>
    /\ ret' = MerkleRoot(tree)
    /\ UNCHANGED <<tree, D>>

\* An entry of the list, or one that is not in it.
DoInclusionProof ==
    \E e \in 0..Len(D) :
        /\ CanCall
        /\ op' = "InclusionProof"
        /\ args' = <<e>>
        /\ ret' = InclusionProof(tree, e)
        /\ UNCHANGED <<tree, D>>

\* Every m and n up to one past the leaf count.
DoConsitencyProof ==
    \E m, n \in 0..(Len(D) + 1) :
        /\ CanCall
        /\ op' = "ConsitencyProof"
        /\ args' = <<m, n>>
        /\ ret' = ConsitencyProof(tree, m, n)
        /\ UNCHANGED <<tree, D>>

\* Every range of the current leaves.
DoMthOfRange ==
    \E start, end \in 0..(Len(D) - 1) :
        /\ CanCall
        /\ start <= end
        /\ op' = "mthOfRange"
        /\ args' = <<start, end>>
        /\ ret' = mthOfRange(tree, start, end)
        /\ UNCHANGED <<tree, D>>

\* The static functions, on a prefix D[0:n] of the caller's list.
DoMTH ==
    \E n \in 0..Len(D) :
        /\ CanCall
        /\ op' = "MTH"
        /\ args' = <<n>>
        /\ ret' = Ok(MTH(Slice(D, 0, n)))
        /\ UNCHANGED <<tree, D>>

DoPath ==
    \E n \in 0..Len(D), m \in 0..(Len(D) + 1) :
        /\ CanCall
        /\ m <= n + 1
        /\ op' = "Path"
        /\ args' = <<m, n>>
        /\ ret' = Path(m, Slice(D, 0, n))
        /\ UNCHANGED <<tree, D>>

DoProof ==
    \E n \in 0..Len(D), m \in 0..(Len(D) + 1) :
        /\ CanCall
        /\ m <= n + 1
        /\ op' = "Proof"
        /\ args' = <<m, n>>
        /\ ret' = Ok(Proof(m, Slice(D, 0, n)))
        /\ UNCHANGED <<tree, D>>

Next ==
    \/ Return
    \/ DoAppend
    \/ DoMerkleRoot
    \/ DoInclusionProof
    \/ DoConsitencyProof
    \/ DoMthOfRange
    \/ DoMTH
    \/ DoPath
    \/ DoProof

Spec == Init /\ [][Next]_vars

(***************************************************************************)
(* What the properties are stated with: the decomposition rule and the     *)
(* verifier's folds, written from their definitions and not with the       *)
(* package's functions.                                                    *)
(***************************************************************************)
IsPowerOfTwo(k) == \E i \in 0..k : k = 2^i

\* The largest power of two strictly below n; 0 for n < 2.
SplitPoint(n) ==
    IF n < 2 THEN 0
    ELSE CHOOSE k \in 1..n : IsPowerOfTwo(k) /\ k < n /\ n <= 2 * k

\* floor(log2 n)+1 for a power of two, floor(log2 n)+2 otherwise: the least l
\* with n <= 2^(l-1).
LevelCount(n) == CHOOSE l \in 1..(n + 1) : n <= 2^(l - 1) /\ (l = 1 \/ 2^(l - 2) < n)

\* The halves leaf m of n falls into, from the root down to the leaf.
RECURSIVE Sides(_, _)
Sides(m, n) ==
    IF n < 2 THEN <<>>
    ELSE LET k == SplitPoint(n)
         IN  IF m < k THEN <<"left">> \o Sides(m, k)
             ELSE <<"right">> \o Sides(m - k, n - k)

Reverse(s) == [i \in 1..Len(s) |-> s[Len(s) + 1 - i]]

\* The audit path folded onto h from the leaf up: sides[i] is the half the
\* leaf is in where path[i] is its sibling.
RECURSIVE FoldPath(_, _, _)
FoldPath(h, path, sides) ==
    IF path = <<>> THEN h
    ELSE FoldPath(IF Head(sides) = "left" THEN nodeHash(<<h, Head(path)>>)
                  ELSE nodeHash(<<Head(path), h>>),
                  Tail(path), Tail(sides))

\* The number of digests of a consistency proof of m within n.
RECURSIVE ProofLen(_, _, _)
ProofLen(m, n, isKnown) ==
    IF m = n THEN (IF isKnown THEN 0 ELSE 1)
    ELSE LET k == SplitPoint(n)
         IN  IF m <= k THEN ProofLen(m, k, isKnown) + 1
             ELSE ProofLen(m - k, n - k, FALSE) + 1

\* The root of the first n entries from a consistency proof and the root
\* oldRoot of the first m: where the recursion ends on the known size the
\* old root stands for that subtree, otherwise the proof's first digest does;
\* every split above it pairs the subtree with the proof's sibling.
RECURSIVE FoldProof(_, _, _, _, _)
FoldProof(m, n, isKnown, oldRoot, proof) ==
    IF m = n THEN (IF isKnown THEN oldRoot ELSE proof[1])
    ELSE LET k     == SplitPoint(n)
             front == SubSeq(proof, 1, Len(proof) - 1)
             last  == proof[Len(proof)]
         IN  IF m <= k
             THEN nodeHash(<<FoldProof(m, k, isKnown, oldRoot, front), last>>)
             ELSE nodeHash(<<last, FoldProof(m - k, n - k, FALSE, oldRoot, front)>>)

\* Whether leaves start..end are a subtree of the decomposition of lo..hi.
RECURSIVE InDecomposition(_, _, _, _)
InDecomposition(start, end, lo, hi) ==
    \/ start = lo /\ end = hi
    \/ /\ lo < hi
       /\ lo <= start /\ end <= hi
       /\ LET k == lo + SplitPoint(hi - lo + 1)
          IN  \/ InDecomposition(start, end, lo, k - 1)
              \/ InDecomposition(start, end, k, hi)

\* The tree is the one New builds from D, with no Append since.
BuiltByNew == New(D).status = "ok" /\ tree = New(D).val

(***************************************************************************)
(* C1: for every entry list D, the empty one included, New(D) returns a    *)
(* tree whose MerkleRoot() is the static MTH(D).                           *)
(***************************************************************************)
C1_NewRootIsMTH ==
    op = "New" => ret.status = "ok" /\ MerkleRoot(tree) = Ok(MTH(D))

(***************************************************************************)
(* C2: for pairwise-distinct entries D and every entry D[m],               *)
(* New(D).InclusionProof(D[m]) returns, without an out-of-range access,    *)
(* the digest sequence of the static Path(m, D).                           *)
(***************************************************************************)
C2_InclusionProofIsPath ==
    (op = "InclusionProof" /\ BuiltByNew /\ Distinct(D) /\ args[1] < Len(D))
        => ret = Path(args[1], D)

(***************************************************************************)
(* C3: on a tree built from D, for all m <= n <= leaf count,               *)
(* ConsitencyProof(m, n) returns, without an out-of-range access, the      *)
(* digest sequence of the static Proof(m, D[0:n]).                         *)
(***************************************************************************)
C3_ConsitencyProofIsProof ==
    (op = "ConsitencyProof" /\ BuiltByNew /\ args[1] <= args[2] /\ args[2] <= Len(D))
        => ret = Ok(Proof(args[1], Slice(D, 0, args[2])))

(***************************************************************************)
(* C4: for 0 <= m < n, the static Path(m, D[0:n]) has one digest per       *)
(* decomposition step from the root to leaf m and, folded onto             *)
(* LeafHash(D[m]) from the leaf up with the side of each step, gives       *)
(* MTH(D[0:n]).                                                            *)
(***************************************************************************)
C4_PathFoldsToRoot ==
    (op = "Path" /\ args[1] < args[2]) =>
        LET m == args[1]
            n == args[2]
        IN  /\ ret.status = "ok"
            /\ Len(ret.val) = Len(Sides(m, n))
            /\ FoldPath(leafHash(D[m + 1]), ret.val, Reverse(Sides(m, n)))
                   = MTH(Slice(D, 0, n))

C4_Witness ==
    /\ op = "Path" /\ args = <<6, 7>> /\ Distinct(D)
    /\ ret.status = "ok" /\ Len(ret.val) = 2
    /\ FoldPath(leafHash(D[7]), ret.val, <<"right", "right">>) = MTH(Slice(D, 0, 7))

(***************************************************************************)
(* C5 as claimed: for all 0 <= m <= n, m = 0 included, the static          *)
(* Proof(m, D[0:n]) folded with the old root MTH(D[0:m]) gives MTH(D[0:n]),*)
(* and the proof is empty when m = n.                                      *)
(***************************************************************************)
C5_ProofFoldsToRoot_Claimed ==
    (op = "Proof" /\ args[1] <= args[2]) =>
        LET m == args[1]
            n == args[2]
        IN  /\ Len(ret.val) = ProofLen(m, n, TRUE)
            /\ FoldProof(m, n, TRUE, MTH(Slice(D, 0, m)), ret.val) = MTH(Slice(D, 0, n))
            /\ (m = n => ret.val = <<>>)

(***************************************************************************)
(* C5 as amended: the same for 1 <= m <= n and for m = n = 0; it does not  *)
(* hold for m = 0 < n.                                                     *)
(***************************************************************************)
C5_ProofFoldsToRoot ==
    (op = "Proof" /\ args[1] <= args[2] /\ (args[1] >= 1 \/ args[2] = 0)) =>
        LET m == args[1]
            n == args[2]
        IN  /\ Len(ret.val) = ProofLen(m, n, TRUE)
            /\ FoldProof(m, n, TRUE, MTH(Slice(D, 0, m)), ret.val) = MTH(Slice(D, 0, n))
            /\ (m = n => ret.val = <<>>)

C5_Witness ==
    /\ op = "Proof" /\ args = <<3, 7>>
    /\ Len(ret.val) = 4
    /\ FoldProof(3, 7, TRUE, MTH(Slice(D, 0, 3)), ret.val) = MTH(Slice(D, 0, 7))

(***************************************************************************)
(* C6: after New(A), A not empty, and Append calls that added B in any     *)
(* batches, the last Append returned MTH(A ++ B) and MerkleRoot() is that  *)
(* digest; so every split of B gives the same root.                        *)
(***************************************************************************)
C6_AppendRootIsMTH ==
    op = "Append" => ret = Ok(MTH(D)) /\ MerkleRoot(tree) = Ok(MTH(D))

C6_Witness ==
    /\ op = "Append" /\ Len(args) = 1 /\ Len(D) = 9
    /\ ret = Ok(MTH(D)) /\ MerkleRoot(tree) = ret

(***************************************************************************)
(* C7: an Append of at least one entry that leaves the entries pairwise    *)
(* distinct changes MerkleRoot(); an Append of no entries returns the      *)
(* previous root and leaves MerkleRoot() as it was.                        *)
(***************************************************************************)
C7_AppendChangesRoot ==
    [][op' = "Append" =>
          /\ (Len(args') >= 1 /\ Distinct(D')) =>
                 /\ MerkleRoot(tree') # MerkleRoot(tree)
                 /\ ret' # MerkleRoot(tree)
          /\ Len(args') = 0 =>
                 /\ ret' = MerkleRoot(tree)
                 /\ MerkleRoot(tree') = MerkleRoot(tree)]_vars

C7_Witness ==
    /\ op = "Append" /\ Len(args) = 1 /\ Len(D) = 16 /\ Distinct(D)
    /\ ret = MerkleRoot(tree)
    /\ ret.val # MTH(Slice(D, 0, 15))

(***************************************************************************)
(* C8: the static Path(m, D) with m >= len(D) (D empty included) ends and  *)
(* returns the empty path.                                                 *)
(***************************************************************************)
C8_PathOutOfRangeIsEmpty ==
    (op = "Path" /\ args[1] >= args[2]) => ret = Ok(<<>>)

(***************************************************************************)
(* C9: on a tree built by New from D, for every range start..end that is a *)
(* subtree of the decomposition of 0..n-1, mthOfRange(start, end) reads an *)
(* existing slot and returns MTH(D[start:end+1]).                          *)
(***************************************************************************)
C9_MthOfRangeIsMTH ==
    (/\ op = "mthOfRange"
     /\ BuiltByNew
     /\ InDecomposition(args[1], args[2], 0, Len(D) - 1))
        => ret = Ok(MTH(Slice(D, args[1], args[2] + 1)))

(***************************************************************************)
(* C10: after every step the number of levels is levels(n) for the leaf    *)
(* count n, level 0 holds n digests and the top level holds one, the root; *)
(* no step lowers the number of levels, and a step that raises it is an    *)
(* Append that takes the leaf count past a power of two.  (The tree New    *)
(* returned is the tree after the caller's first step, Return.)            *)
(***************************************************************************)
LevelsShape(t, d) ==
    /\ Len(t) = LevelCount(Len(d))
    /\ Len(t[1]) = Len(d)
    /\ Len(t[Len(t)]) = 1
    /\ t[Len(t)][1] = MTH(d)

C10_LevelsFollowLeafCount ==
    [][/\ LevelsShape(tree', D')
       /\ Len(tree') >= Len(tree)
       /\ Len(tree') > Len(tree) =>
              /\ op' = "Append"
              /\ \E p \in Len(D)..(Len(D') - 1) : IsPowerOfTwo(p)]_vars

C10_Witness ==
    /\ op = "Append" /\ Len(args) = 1 /\ Len(D) = 9
    /\ Len(tree) = 5 /\ LevelsShape(tree, D)

(***************************************************************************)
(* C11: after New(A) and any Append calls that added B, every level array  *)
(* of the tree is, in length and in every element, the level array of a    *)
(* fresh New(A ++ B); no digest of an earlier tree remains.                *)
(***************************************************************************)
C11_AppendLeavesFreshTree ==
    op = "Append" => New(D).status = "ok" /\ tree = New(D).val

(***************************************************************************)
(* largestPowerOf2SmallerThan on its own, over uint64 values: the inputs   *)
(* are the values 2^e + d (mod 2^64), 0 <= e < 64, |d| <= MaxOffset, which *)
(* include 0, 1, 2^63 and 2^64 - 1.                                        *)
(***************************************************************************)
Pow2Uint64(e) ==
    Limbs([i \in 1..NumLimbs |-> IF i = (e \div 16) + 1 THEN 2 ^ (e % 16) ELSE 0])

\* w + 1, wrapping at 2^64.
Uint64Inc(w) ==
    Limbs([i \in 1..NumLimbs |->
        IF \A j \in 1..(i - 1) : w[j] = LimbBase - 1
        THEN (IF w[i] = LimbBase - 1 THEN 0 ELSE w[i] + 1)
        ELSE w[i]])

RECURSIVE Uint64Offset(_, _)
Uint64Offset(w, d) ==
    IF d = 0 THEN w
    ELSE IF d > 0 THEN Uint64Offset(Uint64Inc(w), d - 1)
    ELSE Uint64Offset(Uint64Dec(w), d + 1)

InitPow2 ==
    /\ tree = <<>>
    /\ D = <<>>
    /\ op = "idle"
    /\ \E e \in 0..(WordBits - 1), d \in (0 - MaxOffset)..MaxOffset :
          args = <<Uint64Offset(Pow2Uint64(e), d)>>
    /\ ret = Ok(<<>>)

DoLargestPowerOf2SmallerThan ==
    /\ op = "idle"
    /\ op' = "largestPowerOf2SmallerThan"
    /\ ret' = Ok(largestPowerOf2SmallerThanUint64(args[1]))
    /\ UNCHANGED <<tree, D, args>>

NextPow2 == DoLargestPowerOf2SmallerThan

SpecPow2 == InitPow2 /\ [][NextPow2]_vars

(* C12: for every uint64 n >= 2 largestPowerOf2SmallerThan(n) is a power   *)
(* of two k with k < n <= 2k (2k taken as the number 2^64 when k = 2^63);  *)
(* for n = 0 and n = 1 it is 0.                                            *)
C12_LargestPowerOf2Bracket ==
    op = "largestPowerOf2SmallerThan" =>
        LET n == args[1]
            k == ret.val
        IN  IF Uint64Greater(ToUint64(2), n) THEN k = ToUint64(0)
            ELSE \E e \in 0..(WordBits - 1) :
                    /\ k = Pow2Uint64(e)
                    /\ Uint64Greater(n, k)
                    /\ (e = WordBits - 1
                          \/ ~Uint64Greater(n, Pow2Uint64(e + 1)))

=============================================================================
